---- MODULE Spec2Model ----
(***************************************************************************)
(* uTP socket of the Portal Network client (UtpSocket): one socket, its    *)
(* fields, and one action per public method.  The socket is a record; each *)
(* method is an operator from the socket before the call to the socket     *)
(* after it, so that a method calling another is a composition.  The field *)
(* `wire` holds the packets the operation in progress has handed to        *)
(* utp.emit('Send', ...).                                                  *)
(*                                                                         *)
(* Spec is the socket with its handshake, reader, writer and RTO timer.    *)
(* SpecRTT applies updateRTT and timer expiries alone, long enough for the *)
(* estimators to settle.  SpecWindow is a write socket whose inbound       *)
(* packets pass through updateDelay, which moves max_window.  SpecDelay     *)
(* applies updateDelay alone.  SpecTransfer joins a writer (socket) and a  *)
(* reader (peer) by the packets between them (net).  SpecAsync splits the  *)
(* handlers of a read socket at their awaits (tasks).  SpecFetch is the    *)
(* content request of the JSON-RPC module that waits for a transfer        *)
(* (fetch).  SpecResend is a write socket whose writer sends unacknowledged *)
(* chunks again.  SpecReader is a read socket that receives DATA packets   *)
(* alone, duplicates and stale ones included.                              *)
(***************************************************************************)
EXTENDS Integers, Naturals, Sequences, FiniteSets, TLC

VARIABLES socket, last, steps, socket0, history, peer, net, fetch, tasks

vars == <<socket, last, steps, socket0, history, peer, net, fetch, tasks>>

(* ------------------------------ bounds --------------------------------- *)

\* Number of operations performed on the socket in one behaviour.
MaxSteps == 6
\* Number of expiries in a row that count as repeated timeouts.
MaxExpiries == 2
\* Number of DATA packets delivered to a reader whose peer retransmits.
MaxReaderData == 4
\* Number of operations on a socket whose writer retransmits.
MaxResendSteps == 5
\* Number of contents uTP delivers while a content request is observed.
MaxDeliveries == 2
\* Number of DATA packets delivered to a read socket in one behaviour.
MaxData == 3
\* Largest payload, in chunks, a write socket is constructed with.
MaxChunks == 3
\* Microseconds of wall clock that pass per operation.
TickMicros == 300
\* Largest timeout at which a timer still expires when only RTT samples and
\* expiries are applied.
MaxTimeout == 4000
\* The wall clock, in microseconds, when the socket is constructed.
ClockStart == 1000000
\* Largest finite window, in packets, that updateDelay grows max_window to.
MaxWindowPackets == 4
\* Number of operations in one behaviour of a socket under window control.
MaxWindowSteps == 5

(* ----------------------------- constants ------------------------------- *)

\* Sequence numbers are uint16 on the wire.
SeqSpace == 65536
\* Packet size (MTU), Wire constants of the design.
DEFAULT_PACKET_SIZE == 1280
\* Fixed header of a packet, in bytes.
HEADER_SIZE == 20
\* Bytes of application data per DATA packet.
MAX_DATA_PAYLOAD == DEFAULT_PACKET_SIZE - HEADER_SIZE
\* new Array(32): width of the selective-ACK window.
SackBits == 32
\* finNr = undefined.
NoFin == 0 - 1
\* Floor of the retransmission timeout, updateRTT.
RTO_FLOOR == 500
\* Initial rtt and timeout of the constructor.
INITIAL_RTT == 1000
\* Age, in the unit of the timestamps, after which updateDelay replaces baseDelay.
BASE_DELAY_WINDOW == 120000
\* The number Infinity, as max_window + scaledGain may come out.
Infinity == 2147483647

\* The selective-ACK permutation of bit offsets.
bitmap ==
  <<8, 7, 6, 5, 4, 3, 2, 1, 16, 15, 14, 13, 12, 11, 10, 9,
    24, 23, 22, 21, 20, 19, 18, 17, 32, 31, 30, 29, 28, 27, 26, 25>>

(* ------------------------------ helpers -------------------------------- *)

Abs(a) == IF a >= 0 THEN a ELSE 0 - a

\* BigNumber.div: integer division truncating toward zero.
TruncDiv(a, b) == IF a >= 0 THEN a \div b ELSE 0 - ((0 - a) \div b)

\* Math.ceil(a / b) for a >= 0, b > 0.
CeilDiv(a, b) == (a + b - 1) \div b

\* Array.prototype.includes
Includes(seq, x) == \E i \in 1..Len(seq) : seq[i] = x

\* The set of elements of an array.
Elems(seq) == {seq[i] : i \in 1..Len(seq)}

RECURSIVE InsertSorted(_, _)
InsertSorted(seq, x) ==
  IF seq = <<>> THEN <<x>>
  ELSE IF x <= Head(seq) THEN <<x>> \o seq
  ELSE <<Head(seq)>> \o InsertSorted(Tail(seq), x)

\* Array.prototype.sort((a, b) => a - b): ascending numeric order, duplicates kept.
RECURSIVE Sort(_)
Sort(seq) == IF seq = <<>> THEN <<>> ELSE InsertSorted(Sort(Tail(seq)), Head(seq))

\* Map.set
MapSet(m, k, v) == [x \in (DOMAIN m) \cup {k} |-> IF x = k THEN v ELSE m[x]]

\* Map.delete
MapDelete(m, k) == [x \in (DOMAIN m) \ {k} |-> m[x]]

EmptyMap == [x \in {} |-> 0]

\* Map.size
MapSize(m) == Cardinality(DOMAIN m)

(* ------------------------------ packets -------------------------------- *)

\* The payload a DATA packet with a given sequence number carries.
ChunkOf(seq) == IF seq % 2 = 0 THEN <<seq % 256>> ELSE <<seq % 256, (seq + 1) % 256>>

NoMask == <<>>

MkPacket(type, seqNr, ackNr, timestamp, bitmask, payload) ==
  [type |-> type, seqNr |-> seqNr, ackNr |-> ackNr, timestamp |-> timestamp,
   extension |-> IF bitmask = NoMask THEN 0 ELSE 1, bitmask |-> bitmask,
   payload |-> payload]

NoPacket == MkPacket("NONE", 0, 0, 0, NoMask, <<>>)

\* A header field of 16 bits holds its value modulo 2^16.
U16(n) == n % SeqSpace

createSynPacket(s, now) == MkPacket("ST_SYN", U16(s.seqNr), U16(s.ackNr), now, NoMask, <<>>)

createAckPacket(s, now) == MkPacket("ST_STATE", U16(s.seqNr), U16(s.ackNr), now, NoMask, <<>>)

createSelectiveAckPacket(s, now, bitmask) ==
  MkPacket("ST_STATE", U16(s.seqNr), U16(s.ackNr), now, bitmask, <<>>)

createDataPacket(s, now, seqNr, payload) ==
  MkPacket("ST_DATA", U16(seqNr), U16(s.ackNr), now, NoMask, payload)

createFinPacket(s, now) == MkPacket("ST_FIN", U16(s.seqNr), U16(s.ackNr), now, NoMask, <<>>)

createResetPacket(s, now) == MkPacket("ST_RESET", U16(s.seqNr), U16(s.ackNr), now, NoMask, <<>>)

(* ------------------------------- socket -------------------------------- *)

NoReader == [exists |-> FALSE, startingSeqNr |-> 0, packets |-> EmptyMap]

NoWriter == [exists |-> FALSE, writing |-> FALSE, sentChunks |-> <<>>]

\* new UtpSocket(utp, remoteAddress, sndId, rcvId, seqNr, ackNr, type, logger, content)
UtpSocket(seqNr, ackNr, type, contentLen) ==
  [type |-> type,
   content |-> contentLen,
   seqNr |-> seqNr,
   ackNr |-> ackNr,
   finNr |-> NoFin,
   max_window |-> DEFAULT_PACKET_SIZE * 3,
   cur_window |-> 0,
   reply_micro |-> 0,
   state |-> "None",
   rtt |-> INITIAL_RTT,
   rtt_var |-> 0,
   timeout |-> INITIAL_RTT,
   timeoutCounter |-> FALSE,
   timers |-> 0,
   baseDelay |-> [delay |-> 0, timestamp |-> 0],
   ourDelay |-> 0,
   readerContent |-> <<>>,
   dataNrs |-> <<>>,
   ackNrs |-> <<>>,
   outBuffer |-> EmptyMap,
   reader |-> NoReader,
   writer |-> NoWriter,
   wire |-> <<>>]

\* clearTimeout(this.timeoutCounter): cancels the timer the handle refers to, if
\* that timer is still pending.
clearTimeout(s) ==
  IF s.timeoutCounter THEN [s EXCEPT !.timeoutCounter = FALSE, !.timers = @ - 1] ELSE s

\* this.timeoutCounter = setTimeout(() => this.throttle(), ...): one more pending
\* timer, and the handle refers to it.
setTimeout(s) == [s EXCEPT !.timeoutCounter = TRUE, !.timers = @ + 1]

\* sendPacket: packet.encode() handed to utp.emit('Send', ...).
sendPacket(s, packet) == [s EXCEPT !.wire = Append(@, packet)]

\* sendSynPacket that leaves the state as it was.
sendSynPacket_KeepsState(s, packet) ==
  sendPacket([s EXCEPT !.outBuffer = MapSet(@, 0, packet.timestamp)], packet)

\* sendSynPacket(packet)
sendSynPacket(s, packet) ==
  LET a == [s EXCEPT !.outBuffer = MapSet(@, 0, packet.timestamp)]
      b == sendPacket(a, packet)
  IN  [b EXCEPT !.state = "SynSent"]

\* sendSynAckPacket(packet)
sendSynAckPacket(s, packet) ==
  LET a == [s EXCEPT !.outBuffer = MapSet(@, 0, packet.timestamp)]
      b == sendPacket(a, packet)
  IN  [b EXCEPT !.seqNr = @ + 1]

\* sendDataPacket(packet)
sendDataPacket(s, packet) ==
  LET a == [s EXCEPT !.state = "Connected",
                     !.outBuffer = MapSet(@, packet.seqNr, packet.timestamp)]
      b == [a EXCEPT !.cur_window = MapSize(a.outBuffer) * DEFAULT_PACKET_SIZE]
      c == sendPacket(b, packet)
  IN  [c EXCEPT !.seqNr = @ + 1]

\* sendStatePacket(packet)
sendStatePacket(s, packet) == sendPacket(s, packet)

\* sendResetPacket(packet)
sendResetPacket(s, packet) == sendPacket([s EXCEPT !.state = "Reset"], packet)

\* sendFinPacket(packet)
sendFinPacket(s, packet) == sendPacket([s EXCEPT !.finNr = packet.seqNr], packet)

\* PacketSenders.sendSynAckPacket(socket): builds the STATE and sends it.
PS_sendSynAckPacket(s, now) == sendSynAckPacket(s, createAckPacket(s, now))

\* PacketSenders.sendAckPacket(socket) and utp.sendStatePacket(socket)
PS_sendAckPacket(s, now) == sendStatePacket(s, createAckPacket(s, now))

\* utp.sendSelectiveAckPacket(socket, bitmask)
PS_sendSelectiveAckPacket(s, now, bitmask) ==
  sendStatePacket(s, createSelectiveAckPacket(s, now, bitmask))

\* handleSynPacket()
handleSynPacket(s, now) == PS_sendSynAckPacket([s EXCEPT !.state = "SynRecv"], now)

(* --------------------------- content reader ---------------------------- *)

\* new ContentReader(socket, startingSeqNr)
ContentReader(startingSeqNr) ==
  [exists |-> TRUE, startingSeqNr |-> startingSeqNr, packets |-> EmptyMap]

\* reader.addPacket(packet): the packet is buffered by its seq_nr.
addPacket(reader, packet) ==
  [reader EXCEPT !.packets = MapSet(@, packet.seqNr, packet.payload)]

\* The sequence numbers first .. first+n-1, modulo 2^16.
SeqRun(first, n) == [i \in 1..n |-> U16(first + i - 1)]

\* The first data seq_nr of a stream of n packets that ends right before finNr.
FirstDataNr(finNr, n) == U16(finNr + SeqSpace - n)

RECURSIVE Concat(_, _)
Concat(packets, order) ==
  IF order = <<>> THEN <<>>
  ELSE packets[Head(order)] \o Concat(packets, Tail(order))

\* No gap between the first data seq_nr and finNr - 1.
Complete(reader, finNr) ==
  DOMAIN reader.packets =
    Elems(SeqRun(FirstDataNr(finNr, MapSize(reader.packets)), MapSize(reader.packets)))

\* reader.run(): the payloads from the first data seq_nr to finNr - 1, in
\* sequence order; defined when the stream is Complete.
run(reader, finNr) ==
  Concat(reader.packets,
         SeqRun(FirstDataNr(finNr, MapSize(reader.packets)), MapSize(reader.packets)))

(* ------------------------- selective ACK mask -------------------------- *)

\* window[bitmap[i] - 1] = true for the i of 0..31 with ackNrs.includes(ackNr + 1 + i)
SackWindow(s) ==
  [b \in 0..(SackBits - 1) |->
     \E i \in 0..(SackBits - 1) :
        /\ bitmap[i + 1] - 1 = b
        /\ Includes(s.ackNrs, s.ackNr + 1 + i)]

RECURSIVE ByteOf(_, _, _)
ByteOf(window, byte, k) ==
  IF k = 8 THEN 0
  ELSE (IF window[8 * byte + k] THEN 1 ELSE 0) + 2 * ByteOf(window, byte, k + 1)

\* new BitVectorType(32).serialize(BitArray.fromBoolArray(window)): bit b of the
\* array is bit b % 8 (least significant first) of byte b \div 8.
Serialize(window) == [j \in 1..(SackBits \div 8) |-> ByteOf(window, j - 1, 0)]

RECURSIVE Shift(_, _)
Shift(n, k) == IF k = 0 THEN n ELSE Shift(n \div 2, k - 1)

\* Bit b of a serialized mask.
BitAt(mask, b) == Shift(mask[(b \div 8) + 1], b % 8) % 2 = 1

\* generateSelectiveAckBitMask()
generateSelectiveAckBitMask(s) == Serialize(SackWindow(s))

(* --------------------------- inbound DATA / FIN ------------------------ *)

\* this.ackNrs.sort(...).find((n, i) => this.ackNrs[i + 1] !== n + 1)
RECURSIVE FindGap(_, _)
FindGap(sorted, i) ==
  IF i >= Len(sorted) THEN sorted[Len(sorted)]
  ELSE IF sorted[i + 1] # sorted[i] + 1 THEN sorted[i]
  ELSE FindGap(sorted, i + 1)

\* The reader after handleDataPacket has created it (if missing) and added the packet.
ReaderWith(s, packet) ==
  addPacket(IF s.reader.exists THEN s.reader ELSE ContentReader(packet.seqNr), packet)

\* handleDataPacket that hands only the in-order packets to the reader.
handleDataPacket_ReadsInOrderOnly(s, packet, now) ==
  LET expected == (s.ackNr + 1 = packet.seqNr)
      a == [s EXCEPT !.state = "Connected",
                     !.seqNr = @ + 1,
                     !.ackNrs = Append(@, packet.seqNr)]
  IN  IF expected
      THEN LET sorted == Sort(a.ackNrs)
               b == [a EXCEPT !.ackNrs = sorted, !.ackNr = FindGap(sorted, 1),
                              !.reader = ReaderWith(s, packet)]
           IN  PS_sendAckPacket(b, now)
      ELSE PS_sendSelectiveAckPacket(a, now, generateSelectiveAckBitMask(a))

\* handleDataPacket that recomputes ackNr for every packet, expected or not.
handleDataPacket_AdvancesAlways(s, packet, now) ==
  LET expected == (s.ackNr + 1 = packet.seqNr)
      a == [s EXCEPT !.state = "Connected",
                     !.seqNr = @ + 1,
                     !.reader = ReaderWith(s, packet),
                     !.ackNrs = Append(@, packet.seqNr)]
      b == [a EXCEPT !.ackNr = FindGap(Sort(a.ackNrs), 1)]
  IN  IF expected
      THEN PS_sendAckPacket([b EXCEPT !.ackNrs = Sort(a.ackNrs)], now)
      ELSE PS_sendSelectiveAckPacket(b, now, generateSelectiveAckBitMask(b))

\* handleDataPacket(packet)
handleDataPacket(s, packet, now) ==
  LET expected == (s.ackNr + 1 = packet.seqNr)
      a == [s EXCEPT !.state = "Connected",
                     !.seqNr = @ + 1,
                     !.reader = ReaderWith(s, packet),
                     !.ackNrs = Append(@, packet.seqNr)]
  IN  IF expected
      THEN LET sorted == Sort(a.ackNrs)
               b == [a EXCEPT !.ackNrs = sorted, !.ackNr = FindGap(sorted, 1)]
           IN  PS_sendAckPacket(b, now)
      ELSE PS_sendSelectiveAckPacket(a, now, generateSelectiveAckBitMask(a))

\* What handleFinPacket's promise settles with.
handleFinPacketRet(s, packet) ==
  IF ~s.reader.exists THEN "TypeError"
  ELSE IF ~Complete(s.reader, packet.seqNr) THEN "IncompleteStream"
  ELSE "content"

\* handleFinPacket(packet)
handleFinPacket(s, packet, now) ==
  LET a == [s EXCEPT !.state = "GotFin"]
  IN  IF handleFinPacketRet(s, packet) # "content" THEN a
      ELSE LET b == [a EXCEPT !.readerContent = run(s.reader, packet.seqNr),
                              !.seqNr = @ + 1,
                              !.ackNr = packet.seqNr]
               c == PS_sendAckPacket(b, now)
           IN  clearTimeout(c)

(* ------------------------------ RTT / RTO ------------------------------ *)

\* updateRTT that arms its timer without cancelling the pending one.
updateRTT_ArmsWithoutCancel(s, packetRTT) ==
  LET delta == s.rtt - packetRTT
      rtt_var == s.rtt_var + TruncDiv(Abs(delta) - s.rtt_var, 4)
      rtt == s.rtt + TruncDiv(packetRTT - s.rtt, 8)
      a == [s EXCEPT !.rtt_var = rtt_var,
                     !.rtt = rtt,
                     !.timeout = IF rtt + rtt_var * 4 > RTO_FLOOR
                                 THEN rtt + rtt_var * 4 ELSE RTO_FLOOR]
  IN  setTimeout(a)

\* updateRTT that sets the timeout to rtt + 4 * rtt_var without a floor.
updateRTT_NoFloor(s, packetRTT) ==
  LET delta == s.rtt - packetRTT
      rtt_var == s.rtt_var + TruncDiv(Abs(delta) - s.rtt_var, 4)
      rtt == s.rtt + TruncDiv(packetRTT - s.rtt, 8)
      a == [s EXCEPT !.rtt_var = rtt_var,
                     !.rtt = rtt,
                     !.timeout = rtt + rtt_var * 4]
  IN  setTimeout(clearTimeout(a))

\* updateRTT whose divisions round towards minus infinity.
updateRTT_FloorDivision(s, packetRTT) ==
  LET delta == s.rtt - packetRTT
      rtt_var == s.rtt_var + ((Abs(delta) - s.rtt_var) \div 4)
      rtt == s.rtt + ((packetRTT - s.rtt) \div 8)
      a == [s EXCEPT !.rtt_var = rtt_var,
                     !.rtt = rtt,
                     !.timeout = IF rtt + rtt_var * 4 > RTO_FLOOR
                                 THEN rtt + rtt_var * 4 ELSE RTO_FLOOR]
  IN  setTimeout(clearTimeout(a))

\* updateRTT(packetRTT)
updateRTT(s, packetRTT) ==
  LET delta == s.rtt - packetRTT
      rtt_var == s.rtt_var + TruncDiv(Abs(delta) - s.rtt_var, 4)
      rtt == s.rtt + TruncDiv(packetRTT - s.rtt, 8)
      a == [s EXCEPT !.rtt_var = rtt_var,
                     !.rtt = rtt,
                     !.timeout = IF rtt + rtt_var * 4 > RTO_FLOOR
                                 THEN rtt + rtt_var * 4 ELSE RTO_FLOOR]
  IN  setTimeout(clearTimeout(a))

(* --------------------------- content writer ---------------------------- *)

\* The number of DATA frames of a payload.
NumChunks(contentLen) == CeilDiv(contentLen, MAX_DATA_PAYLOAD)

\* new ContentWriter(...), writing
ContentWriter == [exists |-> TRUE, writing |-> TRUE, sentChunks |-> <<>>]

\* One more chunk fits the window.
Fits(s) == s.cur_window + DEFAULT_PACKET_SIZE <= s.max_window

\* The writer emits the next chunk: its seq_nr is the socket's, appended to dataNrs.
WriteChunk(s, now) ==
  LET packet == createDataPacket(s, now, s.seqNr, ChunkOf(U16(s.seqNr)))
      a == [s EXCEPT !.dataNrs = Append(@, packet.seqNr),
                     !.writer.sentChunks = Append(@, packet.seqNr)]
  IN  sendDataPacket(a, packet)

\* writer.start(): emit as many chunks as fit into max_window - cur_window.
RECURSIVE start(_, _)
start(s, now) ==
  IF Len(s.writer.sentChunks) < NumChunks(s.content) /\ Fits(s)
  THEN start(WriteChunk(s, now), now)
  ELSE s

(* ----------------------------- inbound STATE --------------------------- *)

\* The socket after compare() has sorted dataNrs and ackNrs in place.
compareSorted(s) == [s EXCEPT !.dataNrs = Sort(@), !.ackNrs = Sort(@)]

\* compare()
compare(s) == Sort(s.dataNrs) = Sort(s.ackNrs)

\* The transport's handling of an acknowledgement before the socket's handler:
\* the RTT sample of out_buffer[ack_nr], its removal, and the record in ackNrs.
OnAck(s, packet, now) ==
  IF s.type # "write" \/ packet.ackNr = s.finNr THEN s
  ELSE LET a == IF packet.ackNr \in DOMAIN s.outBuffer
                THEN [updateRTT(s, now - s.outBuffer[packet.ackNr])
                        EXCEPT !.outBuffer = MapDelete(@, packet.ackNr)]
                ELSE s
       IN  IF Includes(a.dataNrs, packet.ackNr) /\ ~Includes(a.ackNrs, packet.ackNr)
           THEN [a EXCEPT !.ackNrs = Append(@, packet.ackNr)]
           ELSE a

\* What handleStatePacket returns.
handleStatePacketRet(s, packet) ==
  IF packet.ackNr = s.finNr THEN "true"
  ELSE IF s.type = "read" THEN "packet"
  ELSE IF compare(s) THEN "true"
  ELSE "undefined"

\* handleStatePacket that reads a finNr never assigned as sequence number 0.
handleStatePacket_ClosesOnZero(s, packet, now) ==
  IF packet.ackNr = (IF s.finNr = NoFin THEN 0 ELSE s.finNr)
  THEN [clearTimeout(s) EXCEPT !.state = "Closed"]
  ELSE IF s.type = "read"
  THEN PS_sendAckPacket([s EXCEPT !.state = "Connected"], now)
  ELSE LET a == [s EXCEPT !.state = "Connected"]
           b == IF a.writer.exists
                THEN [a EXCEPT !.cur_window = MapSize(a.outBuffer) * DEFAULT_PACKET_SIZE]
                ELSE a
           c == compareSorted(b)
       IN  IF compare(b) THEN c
           ELSE IF c.writer.exists /\ c.writer.writing THEN start(c, now)
           ELSE c

\* handleStatePacket(packet)
handleStatePacket(s, packet, now) ==
  IF packet.ackNr = s.finNr
  THEN [clearTimeout(s) EXCEPT !.state = "Closed"]
  ELSE IF s.type = "read"
  THEN PS_sendAckPacket([s EXCEPT !.state = "Connected"], now)
  ELSE LET a == [s EXCEPT !.state = "Connected"]
           b == IF a.writer.exists
                THEN [a EXCEPT !.cur_window = MapSize(a.outBuffer) * DEFAULT_PACKET_SIZE]
                ELSE a
           c == compareSorted(b)
       IN  IF compare(b) THEN c
           ELSE IF c.writer.exists /\ c.writer.writing THEN start(c, now)
           ELSE c

(* ------------------------------- timeout ------------------------------- *)

\* throttle() that clamps the window but leaves the timeout as it was.
throttle_KeepsTimeout(s, now) ==
  LET a == clearTimeout([s EXCEPT !.max_window = DEFAULT_PACKET_SIZE])
  IN  IF a.writer.exists /\ a.writer.writing
      THEN setTimeout(start(a, now))
      ELSE a

\* throttle() that resumes the writer before it clamps the window.
throttle_ClampsAfterStart(s, now) ==
  LET a == clearTimeout(s)
      b == [a EXCEPT !.timeout = @ * 2]
      c == IF b.writer.exists /\ b.writer.writing THEN setTimeout(start(b, now)) ELSE b
  IN  [c EXCEPT !.max_window = DEFAULT_PACKET_SIZE]

\* throttle() that backs off by the initial timeout instead of doubling.
throttle_BacksOffLinearly(s, now) ==
  LET a == clearTimeout([s EXCEPT !.max_window = DEFAULT_PACKET_SIZE])
      b == [a EXCEPT !.timeout = @ + INITIAL_RTT]
  IN  IF b.writer.exists /\ b.writer.writing
      THEN setTimeout(start(b, now))
      ELSE b

\* throttle()
throttle(s, now) ==
  LET a == clearTimeout([s EXCEPT !.max_window = DEFAULT_PACKET_SIZE])
      b == [a EXCEPT !.timeout = @ * 2]
  IN  IF b.writer.exists /\ b.writer.writing
      THEN setTimeout(start(b, now))
      ELSE b

(* ------------------------------- LEDBAT -------------------------------- *)

\* The decimal digits of a natural number, BigNumber.toString().
RECURSIVE Digits(_)
Digits(n) == IF n < 10 THEN <<n>> ELSE Append(Digits(n \div 10), n % 10)

\* a < b on two strings.
RECURSIVE StringLess(_, _)
StringLess(a, b) ==
  IF b = <<>> THEN FALSE
  ELSE IF a = <<>> THEN TRUE
  ELSE IF Head(a) # Head(b) THEN Head(a) < Head(b)
  ELSE StringLess(Tail(a), Tail(b))

\* delay < this.baseDelay.delay on two BigNumber objects: the operands have no
\* primitive value but their decimal strings, which are compared.
BigNumberLess(a, b) == StringLess(Digits(a), Digits(b))

\* baseDelay after updateDelay(timestamp, timeReceived).
NewBaseDelay(s, timestamp, timeReceived) ==
  LET delay == timeReceived - timestamp
  IN  IF timeReceived - s.baseDelay.timestamp > BASE_DELAY_WINDOW
      THEN [delay |-> delay, timestamp |-> timeReceived]
      ELSE IF BigNumberLess(delay, s.baseDelay.delay)
      THEN [delay |-> delay, timestamp |-> timeReceived]
      ELSE s.baseDelay

\* What kind of number scaledGain = MAX_CWND_INCREASE_PACKETS_PER_RTT * delayFactor
\* * windowFactor is, the two factors being quotients of floating point numbers.
ScaledGain(s, timestamp, timeReceived) ==
  LET delay == timeReceived - timestamp
      ourDelay == delay - s.baseDelay.delay
      base == NewBaseDelay(s, timestamp, timeReceived).delay
      offTarget == base - ourDelay
      delayFactor == IF base = 0
                     THEN (IF offTarget = 0 THEN "NaN"
                           ELSE IF offTarget > 0 THEN "+Infinity" ELSE "-Infinity")
                     ELSE IF offTarget = 0 THEN "zero"
                     ELSE IF (offTarget > 0) = (base > 0) THEN "positive" ELSE "negative"
      windowFactor == IF s.max_window = 0
                      THEN (IF s.cur_window = 0 THEN "NaN" ELSE "+Infinity")
                      ELSE IF s.cur_window = 0 \/ s.max_window = Infinity THEN "zero"
                      ELSE "positive"
  IN  IF delayFactor = "NaN" \/ windowFactor = "NaN" THEN "NaN"
      ELSE IF delayFactor = "zero"
      THEN (IF windowFactor = "+Infinity" THEN "NaN" ELSE "zero")
      ELSE IF windowFactor = "zero"
      THEN (IF delayFactor \in {"+Infinity", "-Infinity"} THEN "NaN" ELSE "zero")
      ELSE IF windowFactor = "+Infinity"
      THEN (IF delayFactor \in {"positive", "+Infinity"} THEN "+Infinity" ELSE "-Infinity")
      ELSE delayFactor

\* Windows of no packet, of whole packets and of a broken number of packets.
WindowChoices ==
  {0, DEFAULT_PACKET_SIZE, 2 * DEFAULT_PACKET_SIZE + HEADER_SIZE,
   2 * DEFAULT_PACKET_SIZE + 2 * HEADER_SIZE, MaxWindowPackets * DEFAULT_PACKET_SIZE}

\* The values new_max = max_window + scaledGain > 0 ? max_window + scaledGain : 0
\* may take: scaledGain is a product of floating point quotients, of which the
\* model keeps the sign and takes the size from WindowChoices.
NewWindows(s, timestamp, timeReceived) ==
  LET gain == ScaledGain(s, timestamp, timeReceived)
  IN  IF gain \in {"NaN", "-Infinity"} THEN {0}
      ELSE IF gain = "+Infinity" THEN {Infinity}
      ELSE IF gain = "zero" THEN {s.max_window}
      ELSE IF gain = "negative" THEN {w \in WindowChoices : w < s.max_window}
      ELSE {w \in WindowChoices : w > s.max_window}

\* updateDelay(timestamp, timeReceived), new_max being one of NewWindows.
updateDelay(s, timestamp, timeReceived, new_max) ==
  [s EXCEPT !.reply_micro = timeReceived - timestamp,
            !.ourDelay = (timeReceived - timestamp) - s.baseDelay.delay,
            !.baseDelay = NewBaseDelay(s, timestamp, timeReceived),
            !.max_window = new_max]

(* ------------------------------ the inputs ----------------------------- *)

\* seqNr and ackNr a socket is constructed with: away from and right before the wrap.
StartNrs == {<<1, 100>>, <<65535, 65534>>}

\* Payload lengths, in bytes, of a write socket.
ContentLens ==
  {0, 1, MAX_DATA_PAYLOAD, MAX_DATA_PAYLOAD + 1, MaxChunks * MAX_DATA_PAYLOAD}

\* Distance of an inbound DATA packet's seq_nr from the initial ackNr.
DataOffsets == {1, 2, 4, 33}

\* Sequence numbers of the DATA packets the peer may deliver.
DataInputs == {U16(socket0.ackNr + d) : d \in DataOffsets}

\* Sequence numbers a FIN may carry: right after a delivered DATA packet, or
\* right after the handshake (an empty transfer).
FinInputs == {U16(q + 1) : q \in Elems(history.delivered) \cup {socket0.ackNr}}

\* ack_nr values of inbound STATE packets: the SYN's, 0, those of the DATA sent
\* and of the FIN sent.
AckInputs ==
  IF socket.type = "read" THEN {U16(socket0.seqNr)}
  ELSE {0, U16(socket0.seqNr)} \cup Elems(socket.dataNrs)
         \cup (IF socket.finNr = NoFin THEN {} ELSE {socket.finNr})

\* The wall clock, in microseconds, at the current operation.
Now == ClockStart + (steps + 1) * TickMicros

Record(op, pkt, ret) == [op |-> op, pkt |-> pkt, ret |-> ret, pre |-> socket]

\* The socket as an operation finds it: nothing handed to Send yet.
Cur == [socket EXCEPT !.wire = <<>>]

\* The timers that may expire: the one timeoutCounter refers to, and any other
\* still pending.
PendingTimers ==
  (IF socket.timeoutCounter THEN {"handle"} ELSE {})
    \cup (IF socket.timers > (IF socket.timeoutCounter THEN 1 ELSE 0) THEN {"other"} ELSE {})

\* The socket when a timer has expired: it is pending no more, and a handle that
\* referred to it is stale.
Expire(s, fired) ==
  [s EXCEPT !.timers = @ - 1,
            !.timeoutCounter = IF fired = "handle" THEN FALSE ELSE @]

(* ----------------------------- the machine ----------------------------- *)

\* What a behaviour has seen so far: the DATA delivered, whether the FIN sent was
\* acknowledged, the timer expiries since the last acknowledgement and the
\* timeout before the first of them, the invocations of reader.run(), and the
\* sequence numbers of the FINs sent.
NoHistory ==
  [delivered |-> <<>>, finAcked |-> FALSE, expiries |-> 0, rto |-> 0, runs |-> 0,
   fins |-> {}]

\* The history after one more expiry of the timer.
Expired(h) ==
  [h EXCEPT !.expiries = @ + 1, !.rto = IF h.expiries = 0 THEN socket.timeout ELSE @]

\* No socket at the other end of the connection yet.
NoPeer == [state |-> "Absent"]

\* The packets sent so far in the order they were sent, and those on their way
\* to the peer and to the socket.
NoNet == [wire |-> <<>>, toPeer |-> <<>>, toSocket |-> <<>>]

\* No content request made.
NoFetch == [stage |-> "idle"]

\* No handler is suspended at an await, and no packet was received.
NoTasks == [queue |-> <<>>, received |-> <<>>]

\* One socket alone: no peer, no network between them, no content request, no
\* handler suspended at an await.
Alone == peer = NoPeer /\ net = NoNet /\ fetch = NoFetch /\ tasks = NoTasks

Init ==
  \E type \in {"read", "write"}, nrs \in StartNrs, len \in ContentLens :
    /\ type = "read" => len = 0
    /\ socket = UtpSocket(nrs[1], nrs[2], type, len)
    /\ socket0 = socket
    /\ last = [op |-> "new", pkt |-> NoPacket, ret |-> "undefined", pre |-> socket]
    /\ steps = 0
    /\ history = NoHistory
    /\ Alone

Step ==
  /\ steps < MaxSteps
  /\ steps' = steps + 1
  /\ UNCHANGED <<socket0, peer, net, fetch, tasks>>

\* The initiator opens the connection with a SYN.
SendSynPacket ==
  /\ Step
  /\ socket.state = "None"
  /\ socket' = sendSynPacket(Cur, createSynPacket(Cur, Now))
  /\ last' = Record("sendSynPacket", NoPacket, "state")
  /\ UNCHANGED history

\* A SYN arrives, for the first time or retransmitted by the peer, before any
\* other packet of the connection.
HandleSynPacket ==
  /\ Step
  /\ socket.state \in {"None", "SynRecv"}
  /\ socket' = handleSynPacket(Cur, Now)
  /\ last' = Record("handleSynPacket", NoPacket, "packet")
  /\ UNCHANGED history

\* A STATE arrives: on a read socket the answer to its SYN, on a write socket
\* an acknowledgement of something it sent.
HandleStatePacket ==
  /\ Step
  /\ socket.state # "None"
  /\ socket.type = "read" => socket.state = "SynSent"
  /\ \E ack \in AckInputs :
       LET packet == MkPacket("ST_STATE", 0, ack, Now, NoMask, <<>>)
           acked == OnAck(Cur, packet, Now)
       IN  /\ socket' = handleStatePacket(acked, packet, Now)
           /\ last' = Record("handleStatePacket", packet, handleStatePacketRet(acked, packet))
           /\ history' = [history EXCEPT !.finAcked = @ \/ ack = socket.finNr,
                                         !.expiries = 0]

\* A DATA packet arrives on a read socket.
HandleDataPacket ==
  /\ Step
  /\ socket.type = "read"
  /\ Len(history.delivered) < MaxData
  /\ \E seq \in DataInputs :
       LET packet == MkPacket("ST_DATA", seq, 0, Now, NoMask, ChunkOf(seq))
       IN  /\ socket' = handleDataPacket(Cur, packet, Now)
           /\ last' = Record("handleDataPacket", packet, "packet")
           /\ history' = [history EXCEPT !.delivered = Append(@, seq)]

\* A FIN arrives on a read socket.
HandleFinPacket ==
  /\ Step
  /\ socket.type = "read"
  /\ \E seq \in FinInputs :
       LET packet == MkPacket("ST_FIN", seq, 0, Now, NoMask, <<>>)
       IN  /\ socket' = handleFinPacket(Cur, packet, Now)
           /\ last' = Record("handleFinPacket", packet, handleFinPacketRet(socket, packet))
  /\ history' = [history EXCEPT !.runs = IF socket.reader.exists THEN @ + 1 ELSE @]

\* The transfer is cancelled: a RESET is sent.
SendResetPacket ==
  /\ Step
  /\ socket.state # "Reset"
  /\ socket' = sendResetPacket(Cur, createResetPacket(Cur, Now))
  /\ last' = Record("sendResetPacket", NoPacket, "undefined")
  /\ UNCHANGED history

\* A writer is attached to a write socket after the handshake and started.
StartWriter ==
  /\ Step
  /\ socket.type = "write"
  /\ ~socket.writer.exists
  /\ socket.state \in {"SynRecv", "Connected"}
  /\ socket' = start([Cur EXCEPT !.writer = ContentWriter], Now)
  /\ last' = Record("start", NoPacket, "undefined")
  /\ UNCHANGED history

\* The writer, told that all data packets are acked, sends the FIN.
SendFinPacket ==
  /\ Step
  /\ socket.type = "write"
  /\ socket.finNr = NoFin
  /\ last.op = "handleStatePacket" /\ last.ret = "true"
  /\ socket' = sendFinPacket(Cur, createFinPacket(Cur, Now))
  /\ last' = Record("sendFinPacket", NoPacket, "packet")
  /\ history' = [history EXCEPT !.fins = @ \cup {createFinPacket(Cur, Now).seqNr}]

\* A pending timer expires and runs its callback: the one the handle refers to,
\* or one the handle has lost.
Throttle ==
  /\ Step
  /\ \E fired \in PendingTimers :
       socket' = throttle(Expire(Cur, fired), Now)
  /\ last' = Record("throttle", NoPacket, "undefined")
  /\ history' = Expired(history)

Next ==
  \/ SendSynPacket
  \/ HandleSynPacket
  \/ HandleStatePacket
  \/ HandleDataPacket
  \/ HandleFinPacket
  \/ SendResetPacket
  \/ StartWriter
  \/ SendFinPacket
  \/ Throttle

Spec == Init /\ [][Next]_vars

(* ------------------- RTT samples and expiries alone -------------------- *)

\* Round-trip samples handed to updateRTT: far below and above the initial rtt.
RttSamples == {100, 1500}

\* A write socket as constructed.
InitRTT ==
  /\ socket = UtpSocket(1, 100, "write", MAX_DATA_PAYLOAD)
  /\ socket0 = socket
  /\ last = [op |-> "new", pkt |-> NoPacket, ret |-> "undefined", pre |-> socket]
  /\ steps = 0
  /\ history = NoHistory
  /\ Alone

\* updateRTT is called with a round-trip sample.
UpdateRTT ==
  /\ \E packetRTT \in RttSamples :
       /\ socket' = updateRTT(Cur, packetRTT)
       /\ last' = Record("updateRTT", NoPacket, packetRTT)
  /\ history' = [history EXCEPT !.expiries = 0]
  /\ UNCHANGED <<steps, socket0, peer, net, fetch, tasks>>

\* The pending timer expires.
TimerExpires ==
  /\ socket.timeout <= MaxTimeout
  /\ \E fired \in PendingTimers : socket' = throttle(Expire(Cur, fired), Now)
  /\ last' = Record("throttle", NoPacket, "undefined")
  /\ history' = [history EXCEPT !.expiries = @ + 1]
  /\ UNCHANGED <<steps, socket0, peer, net, fetch, tasks>>

NextRTT == UpdateRTT \/ TimerExpires

SpecRTT == InitRTT /\ [][NextRTT]_vars

(* ------------- a write socket under delay-based window control -------- *)

\* One-way delays of the inbound packets, in microseconds.
Delays == {100, 500}

\* A write socket as constructed, with a payload of MaxChunks chunks.
InitWindow ==
  \E nrs \in StartNrs :
    /\ socket = UtpSocket(nrs[1], nrs[2], "write", MaxChunks * MAX_DATA_PAYLOAD)
    /\ socket0 = socket
    /\ last = [op |-> "new", pkt |-> NoPacket, ret |-> "undefined", pre |-> socket]
    /\ steps = 0
    /\ history = NoHistory
    /\ Alone

\* A SYN arrives: the transport measures its delay, then the socket handles it.
InboundSyn ==
  /\ Step
  /\ steps < MaxWindowSteps
  /\ socket.state \in {"None", "SynRecv"}
  /\ \E delay \in Delays :
       \E new_max \in NewWindows(Cur, Now - delay, Now) :
         socket' = handleSynPacket(updateDelay(Cur, Now - delay, Now, new_max), Now)
  /\ last' = Record("handleSynPacket", NoPacket, "packet")
  /\ UNCHANGED history

\* A STATE arrives: the transport measures its delay and takes the
\* acknowledgement, then the socket handles it.
InboundState ==
  /\ Step
  /\ steps < MaxWindowSteps
  /\ socket.state # "None"
  /\ \E ack \in AckInputs, delay \in Delays :
       \E new_max \in NewWindows(Cur, Now - delay, Now) :
         LET packet == MkPacket("ST_STATE", 0, ack, Now - delay, NoMask, <<>>)
             delayed == updateDelay(Cur, Now - delay, Now, new_max)
             acked == OnAck(delayed, packet, Now)
         IN  /\ socket' = handleStatePacket(acked, packet, Now)
             /\ last' = Record("handleStatePacket", packet, handleStatePacketRet(acked, packet))
             /\ history' = [history EXCEPT !.finAcked = @ \/ ack = socket.finNr,
                                           !.expiries = 0]

\* The operations a write socket performs by itself, within MaxWindowSteps.
WindowSendSyn == steps < MaxWindowSteps /\ SendSynPacket

WindowStartWriter == steps < MaxWindowSteps /\ StartWriter

WindowThrottle == steps < MaxWindowSteps /\ Throttle

NextWindow ==
  \/ WindowSendSyn
  \/ InboundSyn
  \/ InboundState
  \/ WindowStartWriter
  \/ WindowThrottle

SpecWindow == InitWindow /\ [][NextWindow]_vars

(* ------------------------ delay samples alone ------------------------- *)

\* One-way delays, in microseconds, whose decimal strings differ in length.
DelaySamples == {100, 500, 1000}

\* updateDelay is called for an inbound packet with its timestamp and the time
\* it was received at.
UpdateDelay ==
  /\ Step
  /\ \E delay \in DelaySamples :
       \E new_max \in NewWindows(Cur, Now - delay, Now) :
         socket' = updateDelay(Cur, Now - delay, Now, new_max)
  /\ last' = Record("updateDelay", NoPacket, "undefined")
  /\ UNCHANGED history

SpecDelay == InitWindow /\ [][UpdateDelay]_vars

(* ------------------- a writer that retransmits ------------------------ *)

\* The chunks sent and not acknowledged: those eligible for resend.
Unacked(s) == {q \in Elems(s.dataNrs) : ~Includes(s.ackNrs, q)}

\* The writer sends an unacknowledged chunk again, with the sequence number it
\* was first sent with and a fresh timestamp.
Resend ==
  /\ Step
  /\ steps < MaxResendSteps
  /\ socket.writer.exists
  /\ \E q \in Unacked(socket) :
       LET packet == createDataPacket(Cur, Now, q, ChunkOf(q))
       IN  /\ socket' = sendDataPacket(Cur, packet)
           /\ last' = Record("resend", packet, "packet")
  /\ UNCHANGED history

\* The operations of a write socket, within MaxResendSteps.
ResendSendSyn == steps < MaxResendSteps /\ SendSynPacket

ResendHandleState == steps < MaxResendSteps /\ HandleStatePacket

ResendStartWriter == steps < MaxResendSteps /\ StartWriter

ResendThrottle == steps < MaxResendSteps /\ Throttle

NextResend ==
  \/ ResendSendSyn
  \/ ResendHandleState
  \/ ResendStartWriter
  \/ ResendThrottle
  \/ Resend

\* A write socket whose payload does not fit the initial window.
InitResend ==
  \E nrs \in StartNrs :
    /\ socket = UtpSocket(nrs[1], nrs[2], "write", (MaxChunks + 1) * MAX_DATA_PAYLOAD)
    /\ socket0 = socket
    /\ last = [op |-> "new", pkt |-> NoPacket, ret |-> "undefined", pre |-> socket]
    /\ steps = 0
    /\ history = NoHistory
    /\ Alone

SpecResend == InitResend /\ [][NextResend]_vars

(* --------------- a reader that sees packets sent again ----------------- *)

\* Distance of an inbound DATA packet's seq_nr from the initial ackNr: the three
\* packets that follow it and the one before it, which the peer sent earlier.
ReaderOffsets == {0 - 1, 1, 2, 3}

\* Sequence numbers of the DATA packets a retransmitting peer may deliver.
ReaderInputs == {U16(socket0.ackNr + SeqSpace + d) : d \in ReaderOffsets}

\* A DATA packet arrives on the read socket, for the first time or again.
ReaderReceives ==
  /\ Step
  /\ Len(history.delivered) < MaxReaderData
  /\ \E seq \in ReaderInputs :
       LET packet == MkPacket("ST_DATA", seq, 0, Now, NoMask, ChunkOf(seq))
       IN  /\ socket' = handleDataPacket(Cur, packet, Now)
           /\ last' = Record("handleDataPacket", packet, "packet")
           /\ history' = [history EXCEPT !.delivered = Append(@, seq)]

InitReader ==
  \E nrs \in StartNrs :
    /\ socket = UtpSocket(nrs[1], nrs[2], "read", 0)
    /\ socket0 = socket
    /\ last = [op |-> "new", pkt |-> NoPacket, ret |-> "undefined", pre |-> socket]
    /\ steps = 0
    /\ history = NoHistory
    /\ Alone

SpecReader == InitReader /\ [][ReaderReceives]_vars

(* ----------------- a writer and a reader, end to end ------------------- *)

\* Sequence numbers the writer's socket is constructed with.
TransferSeqNrs == {1, 100, 65534, 65535}

\* Sequence numbers the reader's socket draws when it is bound to a SYN.
PeerSeqNrs == {7, 65535}

\* Payload lengths, in bytes, that fit one DATA packet.
SmallLens == {1, 800, MAX_DATA_PAYLOAD}

\* The writer's socket as create_writer constructs it; the reader's does not
\* exist before the SYN arrives.
InitTransfer ==
  \E seqNr \in TransferSeqNrs, len \in SmallLens :
    /\ socket = UtpSocket(seqNr, 0, "write", len)
    /\ socket0 = socket
    /\ last = [op |-> "new", pkt |-> NoPacket, ret |-> "undefined", pre |-> socket]
    /\ steps = 0
    /\ history = NoHistory
    /\ Alone

\* One operation of a transfer; the transfer ends by itself.
Tick == steps' = steps + 1 /\ UNCHANGED <<socket0, history, fetch, tasks>>

\* The network after the packets s handed to Send have left for one end.
Sent(n, s, to) == [n EXCEPT !.wire = @ \o s.wire, ![to] = @ \o s.wire]

\* The socket the multiplexer binds to an inbound SYN: ack_nr is the SYN's
\* seq_nr, seq_nr is drawn.
Accept(syn, seqNr) == UtpSocket(seqNr, syn.seqNr, "read", 0)

\* dispatch: the reader's end hands an inbound packet to its handler.
PeerHandles(p, packet, now, seqNr) ==
  CASE packet.type = "ST_SYN" -> handleSynPacket(Accept(packet, seqNr), now)
    [] packet.type = "ST_DATA" -> handleDataPacket(p, packet, now)
    [] packet.type = "ST_FIN" -> handleFinPacket(p, packet, now)

\* The writer opens the connection with a SYN.
TransferSendSyn ==
  /\ Tick
  /\ socket.state = "None"
  /\ socket' = sendSynPacket(Cur, createSynPacket(Cur, Now))
  /\ net' = Sent(net, socket', "toPeer")
  /\ last' = Record("sendSynPacket", NoPacket, "state")
  /\ UNCHANGED peer

\* The oldest packet on its way to the reader arrives there.
TransferPeerReceives ==
  /\ Tick
  /\ net.toPeer # <<>>
  /\ \E seqNr \in PeerSeqNrs :
       LET packet == Head(net.toPeer)
           p == IF peer.state = "Absent" THEN peer ELSE [peer EXCEPT !.wire = <<>>]
       IN  /\ packet.type = "ST_SYN" => peer.state = "Absent"
           /\ peer' = PeerHandles(p, packet, Now, seqNr)
           /\ net' = Sent([net EXCEPT !.toPeer = Tail(@)], peer', "toSocket")
           /\ last' = Record("peer", packet,
                             IF packet.type = "ST_FIN" THEN handleFinPacketRet(p, packet)
                             ELSE "packet")
  /\ UNCHANGED socket

\* The oldest packet on its way to the writer, a STATE, arrives there.
TransferSocketReceives ==
  /\ Tick
  /\ net.toSocket # <<>>
  /\ LET packet == Head(net.toSocket)
         acked == OnAck(Cur, packet, Now)
     IN  /\ socket' = handleStatePacket(acked, packet, Now)
         /\ net' = Sent([net EXCEPT !.toSocket = Tail(@)], socket', "toPeer")
         /\ last' = Record("handleStatePacket", packet, handleStatePacketRet(acked, packet))
  /\ UNCHANGED peer

\* The handshake done, the writer is attached and started.
TransferStartWriter ==
  /\ Tick
  /\ socket.state = "Connected"
  /\ ~socket.writer.exists
  /\ socket' = start([Cur EXCEPT !.writer = ContentWriter], Now)
  /\ net' = Sent(net, socket', "toPeer")
  /\ last' = Record("start", NoPacket, "undefined")
  /\ UNCHANGED peer

\* The writer has sent all its chunks and is told that all are acknowledged:
\* it sends the FIN.
TransferSendFin ==
  /\ Tick
  /\ socket.writer.exists
  /\ Len(socket.writer.sentChunks) = NumChunks(socket.content)
  /\ socket.finNr = NoFin
  /\ last.op = "handleStatePacket" /\ last.ret = "true"
  /\ socket' = sendFinPacket(Cur, createFinPacket(Cur, Now))
  /\ net' = Sent(net, socket', "toPeer")
  /\ last' = Record("sendFinPacket", NoPacket, "packet")
  /\ UNCHANGED peer

NextTransfer ==
  \/ TransferSendSyn
  \/ TransferPeerReceives
  \/ TransferSocketReceives
  \/ TransferStartWriter
  \/ TransferSendFin

SpecTransfer == InitTransfer /\ [][NextTransfer]_vars

(* ------------- the content request handed off to a transfer ----------- *)

\* Content types of the history network: the selector byte of a content key.
ContentTypes == {0, 1, 2}

\* Block hashes: the rest of a content key.
Hashes == {"a", "b"}

\* Contents a transfer may deliver.
Contents == {<<>>, <<1>>, <<2>>}

\* What FindContent may answer with.
Selectors == {"none", "ENRS", "CONTENT", "UTP"}

\* historyFindContent is called with a content key; nothing has happened yet.
InitFetch ==
  \E contentType \in ContentTypes, hash \in Hashes :
    /\ fetch = [stage |-> "idle", contentKey |-> <<contentType, hash>>,
                timeout |-> FALSE, listener |-> FALSE, content |-> <<>>,
                by |-> "nothing", from |-> contentType, events |-> <<>>]
    /\ socket = UtpSocket(1, 100, "read", 0)
    /\ socket0 = socket
    /\ last = [op |-> "new", pkt |-> NoPacket, ret |-> "undefined", pre |-> socket]
    /\ steps = 0
    /\ history = NoHistory
    /\ peer = NoPeer /\ net = NoNet /\ tasks = NoTasks

\* resolve(value) of the promise: it settles a pending promise and does nothing
\* to a settled one. What called it, and the content type of the delivery if one
\* did, are kept with the value.
resolve(f, value, by, from) ==
  IF f.stage = "pending"
  THEN [f EXCEPT !.stage = "resolved", !.content = value, !.by = by, !.from = from]
  ELSE f

\* hash.slice(2) === contentKey.slice(4): the hash without "0x" against the
\* content key without "0x" and its selector byte.
Matches(hash, contentKey) == hash = contentKey[2]

\* The listener registered with uTP.on: (_contentType, hash, value) => ...
listener(f, contentType, hash, value) ==
  IF Matches(hash, f.contentKey)
  THEN resolve([f EXCEPT !.timeout = FALSE], value, "delivery", contentType)
  ELSE f

\* FindContent is answered: with nothing, with ENRs or the content inline, which
\* the request returns at once, or with a transfer, for which the request arms
\* the timeout of 2000 ms and registers its listener.
FetchFoundContent ==
  /\ fetch.stage = "idle"
  /\ \E selector \in Selectors, value \in Contents :
       fetch' = IF selector = "UTP"
                THEN [fetch EXCEPT !.stage = "pending", !.timeout = TRUE, !.listener = TRUE]
                ELSE [fetch EXCEPT !.stage = "returned", !.by = selector,
                                   !.content = IF selector = "none" THEN <<>> ELSE value]
  /\ UNCHANGED <<socket, last, steps, socket0, history, peer, net, tasks>>

\* A transfer completes and uTP emits its content: a registered listener runs.
FetchDelivery ==
  /\ Len(fetch.events) < MaxDeliveries
  /\ \E contentType \in ContentTypes, hash \in Hashes, value \in Contents :
       LET heard == IF fetch.listener THEN listener(fetch, contentType, hash, value)
                    ELSE fetch
       IN  fetch' = [heard EXCEPT !.events =
                       Append(@, [contentKey |-> <<contentType, hash>>,
                                  stage |-> fetch.stage])]
  /\ UNCHANGED <<socket, last, steps, socket0, history, peer, net, tasks>>

\* The 2000 ms are over: the timeout's callback resolves with no bytes.
FetchTimeout ==
  /\ fetch.timeout
  /\ fetch' = resolve([fetch EXCEPT !.timeout = FALSE], <<>>, "timeout", fetch.from)
  /\ UNCHANGED <<socket, last, steps, socket0, history, peer, net, tasks>>

NextFetch ==
  \/ FetchFoundContent
  \/ FetchDelivery
  \/ FetchTimeout

SpecFetch == InitFetch /\ [][NextFetch]_vars

(* ------------- the handlers of a read socket, await by await ----------- *)

\* handleDataPacket up to its first await: the lines before and the call of
\* reader.addPacket(packet).
handleDataPacketBegin(s, packet) ==
  [s EXCEPT !.state = "Connected",
            !.seqNr = @ + 1,
            !.reader = ReaderWith(s, packet),
            !.ackNrs = Append(@, packet.seqNr)]

\* handleDataPacket from its first await on, with the expected it computed
\* before.
handleDataPacketResume(s, expected, now) ==
  IF expected
  THEN LET sorted == Sort(s.ackNrs)
       IN  PS_sendAckPacket([s EXCEPT !.ackNrs = sorted, !.ackNr = FindGap(sorted, 1)], now)
  ELSE PS_sendSelectiveAckPacket(s, now, generateSelectiveAckBitMask(s))

\* handleFinPacket up to its await: the state, and the call of reader.run().
handleFinPacketBegin(s) == [s EXCEPT !.state = "GotFin"]

\* handleFinPacket from its await on, with what run() has returned.
handleFinPacketResume(s, packet, content, now) ==
  LET b == [s EXCEPT !.readerContent = content,
                     !.seqNr = @ + 1,
                     !.ackNr = packet.seqNr]
  IN  clearTimeout(PS_sendAckPacket(b, now))

\* The event loop hands the next packet to its handler when the handlers it
\* has started have run to their end.
MayDispatch_WhileSuspended(queue) == TRUE

MayDispatch(queue) == queue = <<>>

\* A read socket as constructed.
InitAsync ==
  \E nrs \in StartNrs :
    /\ socket = UtpSocket(nrs[1], nrs[2], "read", 0)
    /\ socket0 = socket
    /\ last = [op |-> "new", pkt |-> NoPacket, ret |-> "undefined", pre |-> socket]
    /\ steps = 0
    /\ history = NoHistory
    /\ Alone

AsyncStep == steps < MaxSteps /\ steps' = steps + 1 /\ UNCHANGED <<socket0, peer, fetch>>

\* A DATA packet arrives and handleDataPacket runs up to its await.
AsyncReceiveData ==
  /\ AsyncStep
  /\ MayDispatch(tasks.queue)
  /\ Len(history.delivered) < MaxData
  /\ \E seq \in DataInputs :
       LET packet == MkPacket("ST_DATA", seq, 0, Now, NoMask, ChunkOf(seq))
       IN  /\ socket' = handleDataPacketBegin(Cur, packet)
           /\ tasks' = [queue |-> Append(tasks.queue,
                                         [packet |-> packet, content |-> <<>>,
                                          expected |-> (socket.ackNr + 1 = packet.seqNr)]),
                        received |-> Append(tasks.received, packet)]
           /\ last' = Record("handleDataPacket", packet, "pending")
           /\ history' = [history EXCEPT !.delivered = Append(@, seq)]
  /\ UNCHANGED net

\* A FIN arrives and handleFinPacket runs up to its await; without a reader it
\* throws there.
AsyncReceiveFin ==
  /\ AsyncStep
  /\ MayDispatch(tasks.queue)
  /\ \E seq \in FinInputs :
       LET packet == MkPacket("ST_FIN", seq, 0, Now, NoMask, <<>>)
           ret == handleFinPacketRet(socket, packet)
       IN  /\ socket' = handleFinPacketBegin(Cur)
           /\ tasks' = [queue |-> IF ret = "content"
                                   THEN Append(tasks.queue,
                                               [packet |-> packet, expected |-> FALSE,
                                                content |-> run(socket.reader, seq)])
                                   ELSE tasks.queue,
                        received |-> Append(tasks.received, packet)]
           /\ last' = Record("handleFinPacket", packet, IF ret = "content" THEN "pending" ELSE ret)
           /\ history' = [history EXCEPT !.runs = IF socket.reader.exists THEN @ + 1 ELSE @]
  /\ UNCHANGED net

\* The handler suspended first resumes and runs to its end.
AsyncResume ==
  /\ AsyncStep
  /\ tasks.queue # <<>>
  /\ LET task == Head(tasks.queue)
     IN  /\ socket' = IF task.packet.type = "ST_DATA"
                      THEN handleDataPacketResume(Cur, task.expected, Now)
                      ELSE handleFinPacketResume(Cur, task.packet, task.content, Now)
         /\ last' = Record("resume", task.packet, "packet")
  /\ tasks' = [tasks EXCEPT !.queue = Tail(@)]
  /\ net' = [net EXCEPT !.wire = @ \o socket'.wire]
  /\ UNCHANGED history

NextAsync ==
  \/ AsyncReceiveData
  \/ AsyncReceiveFin
  \/ AsyncResume

SpecAsync == InitAsync /\ [][NextAsync]_vars

(* ------------------------------ properties ----------------------------- *)

\* The operation just performed handled an inbound packet.
Handled == last.op \in {"handleSynPacket", "handleStatePacket", "handleDataPacket", "handleFinPacket"}

\* The operation just performed answered with one STATE without extension.
RepliedPlainState ==
  /\ Len(socket.wire) = 1
  /\ socket.wire[1].type = "ST_STATE"
  /\ socket.wire[1].extension = 0

\* The largest m such that every sequence number from seq through m is in received.
RECURSIVE LargestContiguous(_, _, _)
LargestContiguous(received, seq, fuel) ==
  IF fuel > 0 /\ U16(seq + 1) \in received
  THEN LargestContiguous(received, U16(seq + 1), fuel - 1)
  ELSE seq

\* C1: in every reachable state of a socket whose state is Connected, cur_window
\* equals outBuffer.size times DEFAULT_PACKET_SIZE.
C1_CurWindowIsOutBufferSize ==
  socket.state = "Connected" =>
    socket.cur_window = MapSize(socket.outBuffer) * DEFAULT_PACKET_SIZE

\* C2: once a socket is Closed or Reset, an inbound packet handled by
\* handleSynPacket, handleStatePacket, handleDataPacket or handleFinPacket changes
\* neither its state nor any other field, and nothing is sent: it is dropped.
C2_TerminalStatesAbsorb ==
  (Handled /\ last.pre.state \in {"Closed", "Reset"}) =>
    socket = [last.pre EXCEPT !.wire = <<>>]

\* The DATA packet just handled had been received and acknowledged before.
DuplicateOfAcked ==
  /\ last.op = "handleDataPacket"
  /\ Includes(last.pre.ackNrs, last.pkt.seqNr)
  /\ last.pkt.seqNr <= last.pre.ackNr

\* The next in-order DATA packet of a socket.
NextInOrder(s) == MkPacket("ST_DATA", U16(s.ackNr + 1), 0, 0, NoMask, ChunkOf(U16(s.ackNr + 1)))

\* C3: redelivering an acknowledged DATA packet is idempotent: ackNr and the set
\* of acknowledged sequence numbers are as before, and the next in-order DATA
\* packet is acknowledged exactly as if the duplicate had never arrived.
C3_DuplicateDataIdempotent ==
  DuplicateOfAcked =>
    /\ socket.ackNr = last.pre.ackNr
    /\ Elems(socket.ackNrs) = Elems(last.pre.ackNrs)
    /\ handleDataPacket(socket, NextInOrder(socket), 0).ackNr
         = handleDataPacket(last.pre, NextInOrder(last.pre), 0).ackNr

\* C4: after handleDataPacket receives a DATA packet with seqNr = ackNr + 1, ackNr
\* is the largest m such that every sequence number from the packet's through m
\* has been received, and the reply is a plain STATE.
C4_InOrderAdvancesToLargestContiguous ==
  (last.op = "handleDataPacket" /\ last.pkt.seqNr = last.pre.ackNr + 1) =>
    /\ socket.ackNr = LargestContiguous(Elems(socket.ackNrs), last.pkt.seqNr, SackBits)
    /\ RepliedPlainState

\* C5: the STATE answering an out-of-order DATA packet carries a mask in which,
\* for every i of 0..31, bit bitmap[i] - 1 is set exactly when ack_nr + 2 + i has
\* been received (so for ack_nr 100 and {102, 104, 133}: bits bitmap[0] - 1,
\* bitmap[2] - 1 and bitmap[31] - 1).
C5_SelectiveAckFromAckNrPlusTwo ==
  (last.op = "handleDataPacket" /\ last.pkt.seqNr # U16(last.pre.ackNr + 1)) =>
    /\ Len(socket.wire) = 1
    /\ socket.wire[1].type = "ST_STATE"
    /\ socket.wire[1].extension = 1
    /\ \A i \in 0..(SackBits - 1) :
         BitAt(socket.wire[1].bitmask, bitmap[i + 1] - 1)
           <=> U16(socket.ackNr + 2 + i) \in Elems(socket.ackNrs)

\* The DATA packet with a given sequence number, as the peer sends it.
DataPacket(seq) == MkPacket("ST_DATA", seq, 0, 0, NoMask, ChunkOf(seq))

\* The socket after handleDataPacket has handled the packets of seqs, one by one.
RECURSIVE Deliver(_, _)
Deliver(s, seqs) ==
  IF seqs = <<>> THEN s
  ELSE Deliver(handleDataPacket(s, DataPacket(Head(seqs)), 0), Tail(seqs))

\* Distance of a sequence number from the initial ackNr, in sequence order.
Offset(seq) == U16(seq + SeqSpace - socket0.ackNr)

\* The delivered sequence numbers in the order the writer sent them.
InOrder(seqs) ==
  LET offsets == Sort([i \in 1..Len(seqs) |-> Offset(seqs[i])])
  IN  [i \in 1..Len(seqs) |-> U16(socket0.ackNr + offsets[i])]

\* Every DATA packet was delivered once.
NoDuplicates(seqs) == Cardinality(Elems(seqs)) = Len(seqs)

C7_WrapIsInOrder ==
  (/\ last.op = "handleDataPacket"
   /\ last.pre.ackNr = SeqSpace - 1
   /\ last.pkt.seqNr = 0
   /\ NoDuplicates(history.delivered)) =>
    /\ socket.ackNr = LargestContiguous(Elems(socket.ackNrs), 0, SackBits)
    /\ RepliedPlainState

\* C8: seqNr and ackNr are 16-bit values in every reachable state.
C8_SeqNrAckNrAre16Bit ==
  /\ socket.seqNr \in 0..(SeqSpace - 1)
  /\ socket.ackNr \in 0..(SeqSpace - 1)

\* handleStatePacket just returned true with 'all data packets acked'.
ReportedCompletion ==
  /\ last.op = "handleStatePacket"
  /\ socket.type = "write"
  /\ last.pkt.ackNr # last.pre.finNr
  /\ last.ret = "true"

\* C9: a write socket reports completion only when the sorted dataNrs and ackNrs
\* are equal and |dataNrs| is the number of chunks of the payload.
C9_CompletionMeansAllChunksAcked ==
  ReportedCompletion =>
    /\ Sort(socket.dataNrs) = Sort(socket.ackNrs)
    /\ Len(socket.dataNrs) = NumChunks(socket.content)

\* C10: a STATE whose ackNr is the finNr of a FIN sent closes the socket and
\* cancels the RTO timer, and throttle() never fires on that socket afterwards.
C10_FinAckClosesForGood ==
  /\ (last.op = "handleStatePacket" /\ last.pre.finNr # NoFin
        /\ last.pkt.ackNr = last.pre.finNr) =>
       (socket.state = "Closed" /\ ~socket.timeoutCounter)
  /\ history.finAcked => last.op # "throttle"

\* A packet whose sequence number the socket records when it sends it: a SYN, a
\* DATA, or the STATE that answers a SYN.
Recorded(op, packet) ==
  \/ packet.type \in {"ST_SYN", "ST_DATA"}
  \/ (op = "handleSynPacket" /\ packet.type = "ST_STATE")

\* C11: outBuffer holds exactly the sent and not yet acknowledged packets: the
\* sequence number of a packet is a key once the packet is sent, every key is the
\* sequence number of a packet sent, and after a STATE acknowledging a sequence
\* number is handled that number is no key.
C11_OutBufferIsSentNotAcked ==
  /\ \A i \in 1..Len(socket.wire) :
       Recorded(last.op, socket.wire[i]) => socket.wire[i].seqNr \in DOMAIN socket.outBuffer
  /\ DOMAIN socket.outBuffer \subseteq Elems(socket.dataNrs) \cup {U16(socket0.seqNr)}
  /\ last.op = "handleStatePacket" => last.pkt.ackNr \notin DOMAIN socket.outBuffer

\* C12: at most one RTO timer is pending per socket in every reachable state,
\* whatever the interleaving of acknowledgements and timer expiries.
C12_AtMostOneTimer == socket.timers <= 1

\* updateRTT armed a timer on an acknowledgement while another one was pending.
C12_Witness ==
  /\ socket.timers = 1
  /\ socket.timeoutCounter
  /\ last.op = "handleStatePacket"
  /\ last.pre.timeoutCounter
  /\ last.pkt.ackNr \in DOMAIN last.pre.outBuffer

\* C13: socket.timeout, which setTimeout reads as milliseconds, is at least the
\* floor of 500 in the initial state and after any sequence of updateRTT and
\* throttle calls.
C13_TimeoutAtLeastFloor == socket.timeout >= RTO_FLOOR

\* updateRTT computed rtt + 4 * rtt_var below the floor and set the timeout to
\* the floor.
C13_Witness ==
  /\ last.op = "updateRTT"
  /\ socket.rtt + socket.rtt_var * 4 < RTO_FLOOR
  /\ socket.timeout = RTO_FLOOR
  /\ last.pre.timeout > RTO_FLOOR

\* C14: immediately after throttle() returns, max_window is DEFAULT_PACKET_SIZE
\* and socket.timeout is at least twice what it was before the call.
C14_ThrottleClampsAndDoubles ==
  last.op = "throttle" =>
    /\ socket.max_window = DEFAULT_PACKET_SIZE
    /\ socket.timeout >= 2 * last.pre.timeout

\* throttle() ran on a socket whose window was larger than one packet, with an
\* active writer that start() resumed.
C14_Witness ==
  /\ last.op = "throttle"
  /\ last.pre.max_window > DEFAULT_PACKET_SIZE
  /\ last.pre.writer.exists
  /\ socket.max_window = DEFAULT_PACKET_SIZE
  /\ socket.timeout = 2 * last.pre.timeout

\* The operation just performed emitted a DATA packet.
EmittedData == \E i \in 1..Len(socket.wire) : socket.wire[i].type = "ST_DATA"

C16_InitiatorHandshake ==
  /\ (last.op = "sendSynPacket" /\ last.pre.state = "None") => socket.state = "SynSent"
  /\ (last.op = "handleStatePacket" /\ last.pre.state = "SynSent") =>
       socket.state = "Connected"

\* A socket that had sent its SYN received its first STATE.
C16_Witness ==
  /\ last.op = "handleStatePacket"
  /\ last.pre.state = "SynSent"
  /\ socket0.state = "None"
  /\ socket.state = "Connected"

\* C17: a SYN handled in state None is answered with a STATE, after which the
\* socket is Connected; a SYN handled in any other state changes nothing and is
\* not answered.
C17_AcceptorHandshake ==
  last.op = "handleSynPacket" =>
    IF last.pre.state = "None"
    THEN /\ Len(socket.wire) = 1
         /\ socket.wire[1].type = "ST_STATE"
         /\ socket.state = "Connected"
    ELSE socket = [last.pre EXCEPT !.wire = <<>>]

\* C18: handling a FIN whose stream is complete sets finNr to the FIN's seq_nr,
\* emits one STATE whose ack_nr is the FIN's seq_nr, and leaves the socket Closed.
C18_FinSetsFinNrAndCloses ==
  (last.op = "handleFinPacket" /\ last.ret = "content") =>
    /\ socket.finNr = last.pkt.seqNr
    /\ Len(socket.wire) = 1
    /\ socket.wire[1].type = "ST_STATE"
    /\ socket.wire[1].ackNr = last.pkt.seqNr
    /\ socket.state = "Closed"

\* C19: a socket that is Reset or Closed has no pending timer, and throttle()
\* never runs on a socket that is Reset or Closed.
C19_TerminalStatesCancelTimers ==
  /\ socket.state \in {"Reset", "Closed"} => socket.timers = 0
  /\ last.op = "throttle" => last.pre.state \notin {"Reset", "Closed"}

\* C20: an operation on a socket that is Reset sends nothing.
C20_NothingSentAfterReset ==
  last.pre.state = "Reset" => socket.wire = <<>>

\* A DATA packet the socket sent is not acknowledged yet.
Outstanding == \E q \in DOMAIN socket.outBuffer : Includes(socket.dataNrs, q)

\* C21: a write socket whose DATA stays unacknowledged does not retransmit for
\* ever: once its timer has expired MaxExpiries times in a row since the last
\* acknowledgement, the socket is Reset.
C21_RepeatedTimeoutsReset ==
  (socket.type = "write" /\ Outstanding /\ history.expiries >= MaxExpiries) =>
    socket.state = "Reset"

\* C24: a FIN that arrives on a read socket which received no DATA, and that is
\* the next packet in order, is handled without error: zero bytes are delivered
\* and the FIN is acknowledged with one STATE.
C24_EmptyTransferCompletes ==
  (last.op = "handleFinPacket" /\ last.pre.type = "read" /\ history.delivered = <<>>
     /\ last.pkt.seqNr = U16(last.pre.ackNr + 1)) =>
    /\ last.ret = "content"
    /\ socket.readerContent = <<>>
    /\ Len(socket.wire) = 1
    /\ socket.wire[1].type = "ST_STATE"
    /\ socket.wire[1].ackNr = last.pkt.seqNr

\* C25: reader.run() is invoked at most once on a socket, and only by the
\* handling of a FIN: a second FIN does not reassemble the stream again.
C25_RunAtMostOnce == history.runs <= 1

\* C27: seqNr is the socket's own send sequence: handling an inbound DATA or FIN
\* leaves it as it was.
C27_SeqNrUnchangedByReceiving ==
  last.op \in {"handleDataPacket", "handleFinPacket"} => socket.seqNr = last.pre.seqNr

\* The time the packet just handled was received at.
Received == ClockStart + steps * TickMicros

\* C28: after every updateDelay, baseDelay.delay is at most the delay just
\* measured, and it is that delay whenever the baseline stored before was older
\* than BASE_DELAY_WINDOW.
C28_BaseDelayIsMinimum ==
  last.op = "updateDelay" =>
    /\ socket.baseDelay.delay <= socket.reply_micro
    /\ Received - last.pre.baseDelay.timestamp > BASE_DELAY_WINDOW =>
         socket.baseDelay = [delay |-> socket.reply_micro, timestamp |-> Received]

\* What scenario S1 expects of the i-th packet on the wire, n being the seq_nr
\* of the SYN.
S1(i, packet) ==
  LET n == socket0.seqNr
  IN  CASE i = 1 -> packet.type = "ST_SYN" /\ packet.seqNr = U16(n)
        [] i = 2 -> packet.type = "ST_STATE"
        [] i = 3 -> packet.type = "ST_DATA" /\ packet.seqNr = U16(n + 1)
        [] i = 4 -> packet.type = "ST_STATE" /\ packet.ackNr = U16(n + 1)
        [] i = 5 -> packet.type = "ST_FIN" /\ packet.seqNr = U16(n + 2)
        [] i = 6 -> packet.type = "ST_STATE" /\ packet.ackNr = U16(n + 2)
        [] OTHER -> FALSE

\* C22: in a transfer of a payload that fits one DATA packet, in order and
\* without loss, the packets on the wire are SYN(seq n), STATE, DATA(seq n+1),
\* STATE(ack n+1), FIN(seq n+2), STATE(ack n+2) in this order, and when the
\* writer is Closed the reader has delivered exactly the payload of the DATA.
C22_SmallTransferOnWire ==
  /\ \A i \in 1..Len(net.wire) : S1(i, net.wire[i])
  /\ socket.state = "Closed" =>
       /\ Len(net.wire) = 6
       /\ peer.readerContent = net.wire[3].payload

\* A delivery for the requested key arrived while the request was pending.
DeliveredInTime ==
  \E i \in 1..Len(fetch.events) :
    fetch.events[i].contentKey = fetch.contentKey /\ fetch.events[i].stage = "pending"

\* C23: a request handed off to a transfer always resolves: while it is pending
\* its timeout is armed; it resolves with the bytes of a delivery only if that
\* delivery is for the requested key, and with no bytes at the timeout only if
\* no delivery for the requested key arrived before.
C23_FetchResolvesOnce ==
  /\ fetch.stage = "pending" => fetch.timeout
  /\ (fetch.stage = "resolved" /\ fetch.by = "delivery") =>
       fetch.from = fetch.contentKey[1]
  /\ (fetch.stage = "resolved" /\ fetch.by = "timeout") =>
       (fetch.content = <<>> /\ ~DeliveredInTime)

\* The socket after its handlers have handled the packets one after the other,
\* each from its first line to its last, with every reply it sent.
RECURSIVE Serial(_, _)
Serial(s, packets) ==
  IF packets = <<>> THEN s
  ELSE Serial(IF Head(packets).type = "ST_DATA"
              THEN handleDataPacket(s, Head(packets), 0)
              ELSE handleFinPacket(s, Head(packets), 0),
              Tail(packets))

\* Packets without the time they were sent at.
Untimed(packets) == [i \in 1..Len(packets) |-> [packets[i] EXCEPT !.timestamp = 0]]

Truncated(q, a, b) ==
  /\ Abs(q) * b <= Abs(a)
  /\ Abs(a) < (Abs(q) + 1) * b
  /\ q > 0 => a > 0
  /\ q < 0 => a < 0

\* C31: updateRTT(packetRTT) adds to rtt_var the truncated quarter of
\* |delta| - rtt_var, delta being the old rtt minus packetRTT, adds to rtt the
\* truncated eighth of packetRTT - rtt, sets timeout to the larger of the floor
\* and rtt + 4 * rtt_var, and leaves one timer armed, which the handle refers to.
C31_UpdateRTTFormula ==
  last.op = "updateRTT" =>
    LET packetRTT == last.ret
        delta == last.pre.rtt - packetRTT
        rto == socket.rtt + 4 * socket.rtt_var
    IN  /\ Truncated(socket.rtt_var - last.pre.rtt_var, Abs(delta) - last.pre.rtt_var, 4)
        /\ Truncated(socket.rtt - last.pre.rtt, packetRTT - last.pre.rtt, 8)
        /\ socket.timeout = IF rto > RTO_FLOOR THEN rto ELSE RTO_FLOOR
        /\ socket.timeoutCounter
        /\ socket.timers = 1

\* updateRTT took a sample below rtt whose difference from rtt is no multiple
\* of 8, while rtt_var was above |delta|, and replaced a pending timer.
C31_Witness ==
  /\ last.op = "updateRTT"
  /\ last.ret < last.pre.rtt
  /\ (last.pre.rtt - last.ret) % 8 # 0
  /\ Abs(last.pre.rtt - last.ret) < last.pre.rtt_var
  /\ (last.pre.rtt_var - Abs(last.pre.rtt - last.ret)) % 4 # 0
  /\ last.pre.timeoutCounter
  /\ socket.timers = 1

C33_ResendReusesSeqNr ==
  last.op = "resend" =>
    /\ socket.outBuffer[last.pkt.seqNr] = last.pkt.timestamp
    /\ DOMAIN socket.outBuffer = DOMAIN last.pre.outBuffer
    /\ socket.cur_window = last.pre.cur_window
    /\ socket.seqNr = last.pre.seqNr

\* C34: handling a DATA packet whose seqNr is not ackNr + 1 leaves ackNr as it
\* was: the packet is buffered in the reader, its seqNr is recorded in ackNrs, and
\* the selective-ACK reply carries the cumulative ack_nr the socket had before.
C34_OutOfOrderKeepsAckNr ==
  (last.op = "handleDataPacket" /\ last.pkt.seqNr # last.pre.ackNr + 1) =>
    /\ socket.ackNr = last.pre.ackNr
    /\ Includes(socket.ackNrs, last.pkt.seqNr)
    /\ socket.reader.exists
    /\ last.pkt.seqNr \in DOMAIN socket.reader.packets
    /\ socket.reader.packets[last.pkt.seqNr] = last.pkt.payload
    /\ Len(socket.wire) = 1
    /\ socket.wire[1].type = "ST_STATE"
    /\ socket.wire[1].extension = 1
    /\ socket.wire[1].ackNr = last.pre.ackNr

\* An out-of-order DATA packet was handled after an in-order one had moved ackNr.
C34_Witness ==
  /\ last.op = "handleDataPacket"
  /\ last.pkt.seqNr # last.pre.ackNr + 1
  /\ last.pre.ackNr # socket0.ackNr
  /\ socket.ackNr = last.pre.ackNr
  /\ ~Includes(last.pre.ackNrs, last.pkt.seqNr)
  /\ socket.wire[1].extension = 1

\* b is a or after a in the order of sequence numbers modulo 2^16.
NotBefore(a, b) == U16(b + SeqSpace - a) < SeqSpace \div 2

\* C35: no handleDataPacket call moves a read socket's cumulative ackNr backwards
\* in the order of sequence numbers modulo 2^16, whether the packet is new, a
\* duplicate, or stale (seqNr at or below the current ackNr).
C35_AckNrNeverMovesBack ==
  last.op = "handleDataPacket" => NotBefore(last.pre.ackNr, socket.ackNr)

\* C36: a socket in None is not moved to Connected by one operation: sending or
\* receiving a DATA or STATE packet leaves a socket that has not been in SynSent
\* or SynRecv out of Connected.
C36_ConnectedOnlyAfterHandshake ==
  last.pre.state = "None" => socket.state # "Connected"

\* C37: a socket whose state is Closed has a defined finNr, the seq_nr of a FIN
\* it sent earlier: handleStatePacket closes a socket only on the acknowledgement
\* of the FIN that sendFinPacket recorded.
C37_ClosedHasSentFin ==
  /\ socket.state = "Closed" =>
       (socket.finNr # NoFin /\ socket.finNr \in history.fins)
  /\ (socket.state = "Closed" /\ last.pre.state # "Closed") =>
       /\ last.op = "handleStatePacket"
       /\ last.pre.finNr # NoFin
       /\ last.pkt.ackNr = last.pre.finNr

\* The acknowledgement of the FIN sent has closed a write socket.
C37_Witness ==
  /\ socket.state = "Closed"
  /\ last.op = "handleStatePacket"
  /\ last.pre.state = "Connected"
  /\ socket.finNr \in history.fins
  /\ last.pkt.ackNr = socket.finNr
  /\ Len(socket.dataNrs) > 0

====
